---- MODULE Spec2Model ----
(***************************************************************************)
(* The command-line parser of the shell (src/src/command.rs): the Lexer    *)
(* (peek, advance, read_word, tokenize) and CommandParser::parse, one      *)
(* action per loop iteration.  Strings are sequences of one-character      *)
(* strings; positions are 0-based as in the source.                        *)
(***************************************************************************)
EXTENDS Integers, Sequences, FiniteSets, TLC

VARIABLES chars, position, tokens, word, in_quotes, pc, tokens_iter, command_parts

\* A parsed command written back as a line and parsed again: the stage
\* reached, the first CommandParts, the line written and the second CommandParts.
VARIABLE round_trip

\* The shell around the cd builtin: the HOME variable, the directories that
\* exist, the working directory of the process, Shell::current_dir and the
\* last cd executed.
VARIABLE shell

\* The call of Completer::complete made by the line editor: the line and the
\* cursor it was given, the word it extracted and what it returned.
VARIABLE helper

\* The completion index (src/src/completion.rs): the trie, the two statics of
\* the double-tab detection, the build's overflow checking, and the record of
\* the calls made on a TrieNode (inserted, ambiguous_seen, completion).
VARIABLES trie, LAST_TAB_TIME, TAB_PRESSED, overflow_checks, inserted, ambiguous_seen, completion

\* The CompletionEngine and its callers: the builtin names, the directories
\* of PATH, the thread inside refresh_cache, the RwLock around the trie and
\* the threads inside Completer::complete.
VARIABLES builtin_commands, path_dirs, refresher, rwlock, completers

parser_vars ==
    <<chars, position, tokens, word, in_quotes, pc, tokens_iter, command_parts, round_trip,
      shell, helper>>

trie_vars == <<trie, LAST_TAB_TIME, TAB_PRESSED, overflow_checks, inserted, ambiguous_seen, completion>>

engine_vars == <<builtin_commands, path_dirs, refresher, rwlock, completers>>

vars == <<parser_vars, trie_vars, engine_vars>>

\* Longest line drawn exhaustively from Alphabet.
MaxLen == 4

\* Longest token sequence handed directly to the assembler loop.
MaxTokens == 4

----------------------------------------------------------------------------
\* Characters the lexer distinguishes.
SP == " "
TAB == "\t"
GT == ">"
ONE == "1"
TWO == "2"
PIPE == "|"
AMP == "&"
SQ == "'"
DQ == "\""
BS == "\\"

\* Option::None of peek() and of in_quotes.
None == "None"

Alphabet == {SP, TAB, GT, ONE, TWO, PIPE, AMP, SQ, DQ, BS, "n"}

\* enum Token
Word(w) == [kind |-> "Word", text |-> w, append |-> FALSE]
OutputRedirect(a) == [kind |-> "OutputRedirect", text |-> <<>>, append |-> a]
ErrorRedirect(a) == [kind |-> "ErrorRedirect", text |-> <<>>, append |-> a]
Pipe == [kind |-> "Pipe", text |-> <<>>, append |-> FALSE]
Background == [kind |-> "Background", text |-> <<>>, append |-> FALSE]

\* Option<(PathBuf, bool)> of a redirect field: None, and Some((path, append)).
NoRedirect == <<>>

Redirect(path, a) == << <<path, a>> >>

\* struct CommandParts as parse() first builds it.
EmptyParts ==
    [command |-> <<>>, args |-> <<>>, output_redirect |-> NoRedirect, error_redirect |-> NoRedirect]

----------------------------------------------------------------------------
\* Lexer::peek
Peek(cs, pos) == IF pos < Len(cs) THEN cs[pos + 1] ELSE None

\* Lexer::advance that leaves the position where it is.
Advance_Stays(cs, pos) == pos

\* Lexer::advance: the position after it.
Advance(cs, pos) == IF pos < Len(cs) THEN pos + 1 ELSE pos

\* tokenize, arm '>' : > or >>
TokGt(cs, pos, toks) ==
    LET p1 == Advance(cs, pos) IN
    IF Peek(cs, p1) = GT
    THEN [position |-> Advance(cs, p1), tokens |-> Append(toks, OutputRedirect(TRUE))]
    ELSE [position |-> p1, tokens |-> Append(toks, OutputRedirect(FALSE))]

\* tokenize, arm '1' : 1> or 1>> or the word "1"
TokOne(cs, pos, toks) ==
    LET p1 == Advance(cs, pos) IN
    IF Peek(cs, p1) = GT
    THEN LET p2 == Advance(cs, p1) IN
         IF Peek(cs, p2) = GT
         THEN [position |-> Advance(cs, p2), tokens |-> Append(toks, OutputRedirect(TRUE))]
         ELSE [position |-> p2, tokens |-> Append(toks, OutputRedirect(FALSE))]
    ELSE [position |-> p1, tokens |-> Append(toks, Word(<<ONE>>))]

\* TokTwo with the append flag of 2>> lost.
TokTwo_AppendLost(cs, pos, toks) ==
    LET p1 == Advance(cs, pos) IN
    IF Peek(cs, p1) = GT
    THEN LET p2 == Advance(cs, p1) IN
         IF Peek(cs, p2) = GT
         THEN [position |-> Advance(cs, p2), tokens |-> Append(toks, ErrorRedirect(FALSE))]
         ELSE [position |-> p2, tokens |-> Append(toks, ErrorRedirect(FALSE))]
    ELSE [position |-> p1, tokens |-> Append(toks, Word(<<TWO>>))]

\* tokenize, arm '2' : 2> or 2>> or the word "2"
TokTwo(cs, pos, toks) ==
    LET p1 == Advance(cs, pos) IN
    IF Peek(cs, p1) = GT
    THEN LET p2 == Advance(cs, p1) IN
         IF Peek(cs, p2) = GT
         THEN [position |-> Advance(cs, p2), tokens |-> Append(toks, ErrorRedirect(TRUE))]
         ELSE [position |-> p2, tokens |-> Append(toks, ErrorRedirect(FALSE))]
    ELSE [position |-> p1, tokens |-> Append(toks, Word(<<TWO>>))]

\* ReadQuote in which a quote character inside quotes never closes them.
ReadQuote_NeverCloses(w, q, ch) ==
    IF q = None THEN [word |-> w, in_quotes |-> ch]
    ELSE [word |-> Append(w, ch), in_quotes |-> q]

\* read_word, arm '"' | '\'' : the quote state and the word after it.
ReadQuote(w, q, ch) ==
    IF q = None THEN [word |-> w, in_quotes |-> ch]
    ELSE IF q = ch THEN [word |-> w, in_quotes |-> None]
    ELSE [word |-> Append(w, ch), in_quotes |-> q]

\* ReadBackslash that never pops the backslash inside quotes.
ReadBackslash_QuotedKeeps(cs, pos, w, q) ==
    LET p1 == Advance(cs, pos)
        next == Peek(cs, p1)
        p2 == Advance(cs, p1)
    IN  IF q = None
        THEN IF next # None
             THEN [position |-> p2, word |-> Append(w, next)]
             ELSE [position |-> p2, word |-> w]
        ELSE IF next # None
             THEN [position |-> p2, word |-> Append(Append(w, BS), next)]
             ELSE [position |-> p2, word |-> Append(w, BS)]

\* ReadBackslash that, outside quotes, drops the backslash only before a
\* quote, a backslash or whitespace.
ReadBackslash_UnquotedSelective(cs, pos, w, q) ==
    LET p1 == Advance(cs, pos)
        next == Peek(cs, p1)
        p2 == Advance(cs, p1)
    IN  IF q = None
        THEN IF next # None
             THEN IF next \in {SQ, DQ, BS, SP, TAB}
                  THEN [position |-> p2, word |-> Append(w, next)]
                  ELSE [position |-> p2, word |-> Append(Append(w, BS), next)]
             ELSE [position |-> p2, word |-> w]
        ELSE IF next # None
             THEN IF q = DQ /\ (next = DQ \/ next = BS)
                  THEN [position |-> p2, word |-> Append(w, next)]
                  ELSE [position |-> p2, word |-> Append(Append(w, BS), next)]
             ELSE [position |-> p2, word |-> Append(w, BS)]

\* read_word, arm '\\' : the position and the word after it.
ReadBackslash(cs, pos, w, q) ==
    LET p1 == Advance(cs, pos)
        next == Peek(cs, p1)
        p2 == Advance(cs, p1)
    IN  IF q = None
        THEN IF next # None
             THEN [position |-> p2, word |-> Append(w, next)]
             ELSE [position |-> p2, word |-> w]
        ELSE IF next # None
             THEN IF q = DQ /\ (next = DQ \/ next = BS)
                  THEN [position |-> p2, word |-> Append(w, next)]
                  ELSE [position |-> p2, word |-> Append(Append(w, BS), next)]
             ELSE [position |-> p2, word |-> Append(w, BS)]

\* read_word, guard of the arm  ' ' | '\t' if in_quotes.is_none() => break
ReadBreaks(ch, q) == ch \in {SP, TAB} /\ q = None

\* PushWord without the is_empty test.
PushWord_Always(toks, w) == Append(toks, Word(w))

\* tokenize, arm _ : what is pushed when read_word returns.
PushWord(toks, w) == IF w # <<>> THEN Append(toks, Word(w)) ELSE toks

----------------------------------------------------------------------------
\* ParseWordArm without the is_empty test: every word becomes the command.
ParseWordArm_Overwrite(parts, w) == [parts EXCEPT !.command = w]

\* parse, arm Token::Word
ParseWordArm(parts, w) ==
    IF parts.command = <<>>
    THEN [parts EXCEPT !.command = w]
    ELSE [parts EXCEPT !.args = Append(@, w)]

\* parse, arm Token::OutputRedirect: tokens_iter.next() is taken whatever it is.
ParseOutputArm(toks, i, parts, a) ==
    IF i < Len(toks)
    THEN [tokens_iter |-> i + 1,
          command_parts |-> IF toks[i + 1].kind = "Word"
                            THEN [parts EXCEPT !.output_redirect = Redirect(toks[i + 1].text, a)]
                            ELSE parts]
    ELSE [tokens_iter |-> i, command_parts |-> parts]

\* parse, arm Token::ErrorRedirect
ParseErrorArm(toks, i, parts, a) ==
    IF i < Len(toks)
    THEN [tokens_iter |-> i + 1,
          command_parts |-> IF toks[i + 1].kind = "Word"
                            THEN [parts EXCEPT !.error_redirect = Redirect(toks[i + 1].text, a)]
                            ELSE parts]
    ELSE [tokens_iter |-> i, command_parts |-> parts]

\* ParseOtherArm that starts a new command at a Pipe or Background token.
ParseOtherArm_NewCommand(parts) == [parts EXCEPT !.command = <<>>, !.args = <<>>]

\* parse, arm _ : Pipe and Background
ParseOtherArm(parts) == parts

\* One iteration of parse's while loop; i tokens have been taken, i < Len(toks).
ParseIter(toks, i, parts) ==
    LET token == toks[i + 1] IN
    CASE token.kind = "Word" ->
           [tokens_iter |-> i + 1, command_parts |-> ParseWordArm(parts, token.text)]
      [] token.kind = "OutputRedirect" -> ParseOutputArm(toks, i + 1, parts, token.append)
      [] token.kind = "ErrorRedirect" -> ParseErrorArm(toks, i + 1, parts, token.append)
      [] OTHER -> [tokens_iter |-> i + 1, command_parts |-> ParseOtherArm(parts)]

RECURSIVE AssembleFrom(_, _, _)
AssembleFrom(toks, i, parts) ==
    IF i >= Len(toks) THEN parts
    ELSE LET r == ParseIter(toks, i, parts) IN AssembleFrom(toks, r.tokens_iter, r.command_parts)

\* parse's loop run over a whole token sequence.
Assemble(toks) == AssembleFrom(toks, 0, EmptyParts)

----------------------------------------------------------------------------
\* read_word's loop run from a position to the end of the word: the position
\* it stops at, the word, and the quote state it ends in.
RECURSIVE ReadWord(_, _, _, _)
ReadWord(cs, pos, w, q) ==
    LET ch == Peek(cs, pos) IN
    IF ch = None THEN [position |-> pos, word |-> w, in_quotes |-> q]
    ELSE IF ch \in {DQ, SQ}
    THEN LET r == ReadQuote(w, q, ch) IN ReadWord(cs, Advance(cs, pos), r.word, r.in_quotes)
    ELSE IF ch = BS
    THEN LET r == ReadBackslash(cs, pos, w, q) IN ReadWord(cs, r.position, r.word, q)
    ELSE IF ReadBreaks(ch, q) THEN [position |-> pos, word |-> w, in_quotes |-> q]
    ELSE ReadWord(cs, Advance(cs, pos), Append(w, ch), q)

\* tokenize's loop run from a position to the end of the input: the tokens,
\* and whether every word ended outside quotes.
RECURSIVE TokenizeFrom(_, _, _, _)
TokenizeFrom(cs, pos, toks, closed) ==
    LET ch == Peek(cs, pos) IN
    IF ch = None THEN [tokens |-> toks, closed |-> closed]
    ELSE IF ch \in {SP, TAB} THEN TokenizeFrom(cs, Advance(cs, pos), toks, closed)
    ELSE IF ch = GT
    THEN LET r == TokGt(cs, pos, toks) IN TokenizeFrom(cs, r.position, r.tokens, closed)
    ELSE IF ch = ONE
    THEN LET r == TokOne(cs, pos, toks) IN TokenizeFrom(cs, r.position, r.tokens, closed)
    ELSE IF ch = TWO
    THEN LET r == TokTwo(cs, pos, toks) IN TokenizeFrom(cs, r.position, r.tokens, closed)
    ELSE IF ch = PIPE THEN TokenizeFrom(cs, Advance(cs, pos), Append(toks, Pipe), closed)
    ELSE IF ch = AMP THEN TokenizeFrom(cs, Advance(cs, pos), Append(toks, Background), closed)
    ELSE LET r == ReadWord(cs, pos, <<>>, None)
         IN  TokenizeFrom(cs, r.position, PushWord(toks, r.word),
                          closed /\ r.in_quotes = None)

\* Lexer::tokenize
Tokenize(cs) == TokenizeFrom(cs, 0, <<>>, TRUE)

\* CommandParser::parse as one function of the line.
ParseLine(cs) == Assemble(Tokenize(cs).tokens)

\* The words of a line joined by single spaces.
RECURSIVE JoinWords(_)
JoinWords(ws) ==
    IF ws = <<>> THEN <<>>
    ELSE IF Len(ws) = 1 THEN ws[1]
    ELSE ws[1] \o <<SP>> \o JoinWords(Tail(ws))

\* A word written with a backslash before every character.
RECURSIVE EscapedWord(_)
EscapedWord(w) == IF w = <<>> THEN <<>> ELSE <<BS, Head(w)>> \o EscapedWord(Tail(w))

\* A word written as it is, or escaped.
WrittenWord(w, escaped) == IF escaped THEN EscapedWord(w) ELSE w

\* A redirect field written as its operator and its path.
RedirectText(r, op, escaped) ==
    IF r = NoRedirect THEN <<>>
    ELSE <<SP>> \o op \o (IF r[1][2] THEN <<GT, GT>> ELSE <<GT>>) \o <<SP>>
         \o WrittenWord(r[1][1], escaped)

\* CommandParts written back as a line without quotes: command and args
\* separated by single spaces, then the output and the error redirect.
SerializeWith(parts, escaped) ==
    LET ws == IF parts.command = <<>> THEN <<>> ELSE <<parts.command>> \o parts.args
    IN  JoinWords([i \in 1..Len(ws) |-> WrittenWord(ws[i], escaped)])
        \o RedirectText(parts.output_redirect, <<>>, escaped)
        \o RedirectText(parts.error_redirect, <<TWO>>, escaped)

\* The canonical line with every word written as it is.
Serialize(parts) == SerializeWith(parts, FALSE)

\* The canonical line with every character of every word and path escaped.
SerializeEscaped(parts) == SerializeWith(parts, TRUE)

\* No round trip has been made.
NoRoundTrip ==
    [stage |-> "input", closed |-> TRUE, first |-> EmptyParts, line |-> <<>>,
     again |-> EmptyParts]

----------------------------------------------------------------------------
\* The cd builtin (src/src/builtin.rs) under Shell::execute_builtin.

TILDE == "~"
SLASH == "/"

\* Paths of the file system, and the start directory of the shell.
Path_root == <<SLASH>>
Path_h == <<SLASH, "h">>
Path_hd == <<SLASH, "h", SLASH, "d">>
Path_d == <<SLASH, "d">>

\* The HOME variable: set to a value, unset, or set to bytes that are not Unicode.
HomeSet(v) == [state |-> "set", value |-> v]
HomeUnset == [state |-> "unset", value |-> <<>>]
HomeNotUnicode == [state |-> "not_unicode", value |-> <<>>]

Homes == {HomeSet(Path_h), HomeSet(<<>>), HomeUnset, HomeNotUnicode}

\* Result<String, ShellError>
Ok(output) == [kind |-> "Ok", error |-> "", output |-> output]
Err(error) == [kind |-> "Err", error |-> error, output |-> <<>>]

\* env::var("HOME") with an unset variable read as the empty string.
HomeVar_DefaultsEmpty(home) == Ok(home.value)

\* env::var("HOME").map_err(|_| ShellError::EnvVarNotFound("HOME".to_string()))
HomeVar(home) == IF home.state = "set" THEN Ok(home.value) ELSE Err("EnvVarNotFound(HOME)")

\* dir.starts_with("~/")
StartsWithTildeSlash(dir) == Len(dir) >= 2 /\ dir[1] = TILDE /\ dir[2] = SLASH

\* CdCommand::execute, the match on args.first(): the target directory, or
\* the error that ? returns.
CdTarget(args, home) ==
    IF args = <<>> THEN HomeVar(home)
    ELSE IF args[1] = <<TILDE>> THEN HomeVar(home)
    ELSE IF StartsWithTildeSlash(args[1])
    THEN LET h == HomeVar(home)
         IN  IF h.kind = "Err" THEN h ELSE Ok(h.output \o Tail(args[1]))
    ELSE Ok(args[1])

\* The directory a target names, seen from the working directory.
Resolve(cwd, target) ==
    IF target # <<>> /\ target[1] = SLASH THEN target
    ELSE IF cwd = Path_root THEN cwd \o target
    ELSE cwd \o <<SLASH>> \o target

\* env::set_current_dir(&target_dir).is_err()
SetCurrentDirFails(dirs, cwd, target) == target = <<>> \/ Resolve(cwd, target) \notin dirs

\* format!("cd: {}: No such file or directory", target_dir)
NoSuchDirectory(target) == <<"cd: ">> \o target \o <<": No such file or directory">>

\* What args the cd builtin is given.
CdArgs ==
    {<<>>, << <<TILDE>> >>, << <<TILDE, SLASH, "d">> >>, << Path_d >>, << <<SLASH, "x">> >>,
     << <<"d">> >>, << <<TILDE, "d">> >>, << <<TILDE>>, Path_d >>, << Path_h >>}

\* No cd has been executed.
NoCd ==
    [called |-> FALSE, args |-> <<>>, cwd_before |-> Path_root, current_dir_before |-> Path_root,
     result |-> Ok(<<>>)]

\* No shell runs.
NoShell ==
    [home |-> HomeUnset, dirs |-> {Path_root}, cwd |-> Path_root, current_dir |-> Path_root,
     last |-> NoCd]

----------------------------------------------------------------------------
\* Lines given to parse beyond the exhaustive ones.
Str_cmd == <<"c", "m", "d">>
Str_echo == <<"e", "c", "h", "o">>
Str_hello == <<"h", "e", "l", "l", "o">>
Str_errlog == <<"e", "r", "r", ".", "l", "o", "g">>
Str_outtxt == <<"o", "u", "t", "p", "u", "t", ".", "t", "x", "t">>
Str_out == <<"o", "u", "t">>

LineCmdErrAppend == Str_cmd \o <<SP, TWO, GT, GT, SP>> \o Str_errlog
LineEchoHelloOut == Str_echo \o <<SP>> \o Str_hello \o <<SP, GT, SP>> \o Str_outtxt
LineAGtB == <<"a", GT, "b">>
LineErrThenOut == Str_cmd \o <<SP, TWO, GT, SP, GT, SP>> \o Str_out
LineLastWins == Str_cmd \o <<SP, GT, "a", SP, TWO, GT, "e", SP, GT, GT, "b">>
LineOutErrOut == Str_cmd \o <<SP, GT, "a", SP, TWO, GT, SP, GT, "b">>

ExampleLines ==
    {LineCmdErrAppend, LineEchoHelloOut, LineAGtB, LineErrThenOut, LineLastWins, LineOutErrOut}

Lines == UNION {[1..k -> Alphabet] : k \in 0..MaxLen}

TokenAlphabet ==
    {Word(<<"a">>), Word(<<"b">>), OutputRedirect(FALSE), OutputRedirect(TRUE),
     ErrorRedirect(FALSE), ErrorRedirect(TRUE), Pipe, Background}

TokenSeqs == UNION {[1..k -> TokenAlphabet] : k \in 0..MaxTokens}

----------------------------------------------------------------------------
\* The completion index.

\* Most distinct names inserted into one trie.
MaxInserts == 3

\* Largest value, in ms, that Instant::now().elapsed() returns: the time
\* between two adjacent clock reads.
MaxElapsed == 1

\* The window of a double tab, in ms.
DOUBLE_TAB_MS == 500

\* The byte order of the characters of names (String's Ord).
CharOrder == <<"a", "b", "c", "d", "p", "r", "t", "w", "x">>

Ord(c) == CHOOSE i \in 1..Len(CharOrder) : CharOrder[i] = c

Reverse(s) == [i \in 1..Len(s) |-> s[Len(s) + 1 - i]]

\* Orders in which HashMap::values() walks the children of a node.
ChildOrders == {CharOrder, Reverse(CharOrder)}

\* Option<String>: None, and Some(s).
NoCompletion == <<>>

Some(s) == <<s>>

\* TrieNode::new(): a node is named by the characters on its path from the root.
NewNode == [is_end |-> FALSE, word |-> <<>>]

EmptyTrie == [p \in {<<>>} |-> NewNode]

Prefixes(w) == {SubSeq(w, 1, k) : k \in 0..Len(w)}

\* TrieNode::insert that stores the word in every node it walks through.
TrieInsert_StoresOnPath(t, w) ==
    [p \in DOMAIN t \cup Prefixes(w) |->
        IF p = w THEN [is_end |-> TRUE, word |-> w]
        ELSE IF p \in Prefixes(w) THEN [is_end |-> (p \in DOMAIN t /\ t[p].is_end), word |-> w]
        ELSE t[p]]

\* TrieNode::insert with the stored word appended to instead of assigned.
TrieInsert_Appends(t, w) ==
    LET created == [p \in DOMAIN t \cup Prefixes(w) |-> IF p \in DOMAIN t THEN t[p] ELSE NewNode]
    IN  [created EXCEPT ![w] = [is_end |-> TRUE, word |-> created[w].word \o w]]

\* TrieNode::insert
TrieInsert(t, w) ==
    LET created == [p \in DOMAIN t \cup Prefixes(w) |-> IF p \in DOMAIN t THEN t[p] ELSE NewNode]
    IN  [created EXCEPT ![w] = [is_end |-> TRUE, word |-> w]]

\* TrieNode::collect_words: pre-order, the children taken in the order ord.
RECURSIVE CollectWords(_, _, _)
RECURSIVE CollectChildren(_, _, _, _)
CollectWords(t, p, ord) ==
    (IF t[p].is_end THEN <<t[p].word>> ELSE <<>>) \o CollectChildren(t, p, ord, 1)

CollectChildren(t, p, ord, i) ==
    IF i > Len(ord) THEN <<>>
    ELSE (IF Append(p, ord[i]) \in DOMAIN t THEN CollectWords(t, Append(p, ord[i]), ord) ELSE <<>>)
         \o CollectChildren(t, p, ord, i + 1)

\* TrieNode::find_prefix that collects from the root whatever the prefix is.
FindPrefix_FromRoot(t, prefix, ord) == CollectWords(t, <<>>, ord)

\* TrieNode::find_prefix
FindPrefix(t, prefix, ord) ==
    IF \E k \in 1..Len(prefix) : SubSeq(prefix, 1, k) \notin DOMAIN t
    THEN <<>>
    ELSE CollectWords(t, prefix, ord)

\* str::starts_with
NameStartsWith(name, pre) == Len(pre) <= Len(name) /\ SubSeq(name, 1, Len(pre)) = pre

\* String's Ord: a < b.
NameLess(a, b) ==
    \E k \in 1..Len(b) :
        /\ \A j \in 1..(k - 1) : j <= Len(a) /\ a[j] = b[j]
        /\ (k > Len(a) \/ Ord(a[k]) < Ord(b[k]))

\* SortNames that leaves the matches in the order find_prefix found them.
SortNames_Unsorted(matches) == matches

\* matches.sort()
SortNames(matches) == SortSeq(matches, NameLess)

\* while !name.starts_with(&common_prefix) { common_prefix.pop(); }
RECURSIVE Shrink(_, _)
Shrink(common_prefix, name) ==
    IF NameStartsWith(name, common_prefix) THEN common_prefix
    ELSE Shrink(SubSeq(common_prefix, 1, Len(common_prefix) - 1), name)

RECURSIVE ShrinkOver(_, _, _)
ShrinkOver(common_prefix, sorted, i) ==
    IF i > Len(sorted) THEN common_prefix
    ELSE ShrinkOver(Shrink(common_prefix, sorted[i]), sorted, i + 1)

\* CommonPrefix that compares the first two matches only.
CommonPrefix_FirstTwo(sorted) == Shrink(sorted[1], sorted[2])

\* find_common_prefix: the candidate after the loop over matches[1..].
CommonPrefix(sorted) == ShrinkOver(sorted[1], sorted, 2)

\* now - last_tab < 500 on u64 without overflow checks: a wrapped difference is
\* 2^64 - (last_tab - now), which is not below 500 for last_tab - now <= MaxElapsed.
WithinDoubleTab(now, last_tab) ==
    IF now >= last_tab THEN now - last_tab < DOUBLE_TAB_MS ELSE FALSE

\* now - last_tab panics ("attempt to subtract with overflow") with overflow checks.
SubtractPanics(now, last_tab, checks) == checks /\ now < last_tab

\* SingleMatch without the trailing space.
SingleMatch_NoSpace(name) == Some(name)

\* find_common_prefix, single match: the word with a trailing space.
SingleMatch(name) == Some(Append(name, " "))

\* find_common_prefix as one call: what it returns and prints and what it
\* leaves in the statics.  matches is find_prefix's result, now is the value of
\* Instant::now().elapsed().as_millis().
FindCommonPrefix(matches, prefix, now, last_tab_time, tab_pressed, checks) ==
    LET unchanged == [ret |-> NoCompletion, printed |-> <<>>, panicked |-> FALSE,
                      ambiguous |-> FALSE, common_prefix |-> <<>>,
                      LAST_TAB_TIME |-> last_tab_time, TAB_PRESSED |-> tab_pressed]
    IN  IF matches = <<>> THEN unchanged
        ELSE IF Len(matches) = 1 THEN [unchanged EXCEPT !.ret = SingleMatch(matches[1])]
        ELSE LET sorted == SortNames(matches)
                 common_prefix == CommonPrefix(sorted)
                 found == [unchanged EXCEPT !.common_prefix = common_prefix]
             IN  IF Len(common_prefix) > Len(prefix)
                 THEN [found EXCEPT !.ret = Some(common_prefix)]
                 ELSE IF SubtractPanics(now, last_tab_time, checks)
                 THEN [found EXCEPT !.panicked = TRUE, !.ambiguous = TRUE]
                 ELSE IF WithinDoubleTab(now, last_tab_time)
                 THEN [found EXCEPT !.printed = <<sorted>>, !.ambiguous = TRUE,
                                    !.TAB_PRESSED = FALSE, !.LAST_TAB_TIME = now]
                 ELSE [found EXCEPT !.ambiguous = TRUE,
                                    !.TAB_PRESSED = TRUE, !.LAST_TAB_TIME = now]

\* Names inserted into a TrieNode, and the prefixes asked for.
Name_cd == <<"c", "d">>
Name_cat == <<"c", "a", "t">>
Name_car == <<"c", "a", "r">>
Name_ca == <<"c", "a">>
Name_pwd == <<"p", "w", "d">>

NameUniverse == {Name_cd, Name_cat, Name_car, Name_ca, Name_pwd}

PrefixUniverse ==
    UNION {Prefixes(n) : n \in NameUniverse} \cup {<<"x">>, <<"c", "x">>, <<"c", "a", "t", "x">>}

\* No call on the TrieNode is in progress.  A call in progress is recorded as
\* op ("insert" or "find_common_prefix"), its argument (prefix), the trie
\* before it, and what it found, returned and printed.
NoCall ==
    [op |-> "none", index |-> "this", prefix |-> <<>>, before |-> EmptyTrie, matches |-> <<>>,
     now |-> 0, seen_before |-> FALSE, statics_before |-> <<0, FALSE>>, common_prefix |-> <<>>,
     ret |-> NoCompletion, printed |-> <<>>, panicked |-> FALSE, ambiguous |-> FALSE]

\* for cmd in &self.builtin_commands / for entry in entries: every name
\* inserted, in the iteration order of the set (here: any one order).
RECURSIVE InsertAll(_, _)
InsertAll(t, names) ==
    IF names = {} THEN t
    ELSE LET name == CHOOSE n \in names : TRUE
         IN  InsertAll(TrieInsert(t, name), names \ {name})

\* A directory of PATH: whether read_dir succeeds, and the names in it.
Dir(readable, entries) == [readable |-> readable, entries |-> entries]

\* ReadDir that lists a directory whether read_dir succeeds or not.
ReadDir_Unchecked(dir) == dir.entries

\* if let Ok(entries) = std::fs::read_dir(dir): the names that get inserted.
ReadDir(dir) == IF dir.readable THEN dir.entries ELSE {}

\* RwLock::write is granted with every reader gone or not.
CanWrite_IgnoresReaders(l) == ~l.writer

\* RwLock::write is granted when nobody holds the lock.
CanWrite(l) == ~l.writer /\ l.readers = 0

\* RwLock::read is granted when no writer holds the lock.
CanRead(l) == ~l.writer

\* find_common_prefix gets past line 100: two or more matches and no extension.
IsAmbiguous(matches, prefix) ==
    /\ Len(matches) >= 2
    /\ Len(CommonPrefix(SortNames(matches))) <= Len(prefix)

\* The states a directory of PATH is found in.
DirStates ==
    {Dir(TRUE, {}), Dir(TRUE, {Name_cat}), Dir(TRUE, {Name_cat, Name_car}),
     Dir(FALSE, {Name_car})}

\* The builtin name sets an engine is built with.
BuiltinSets == {{Name_cd}, {Name_cd, Name_pwd}}

\* The threads that call Completer::complete.
Threads == {"t1", "t2"}

\* A thread outside Completer::complete.
IdleThread == [pc |-> "idle", now |-> 0, last_tab |-> 0, seen |-> EmptyTrie]

\* The refresher before CompletionEngine::new has called refresh_cache.
IdleRefresher ==
    [pc |-> "idle", dir |-> 0, before |-> EmptyTrie, clean_runs |-> 0, tainted |-> FALSE,
     constructed |-> FALSE]

\* The trie of a second CompletionEngine in the same process.
OtherTrie == InsertAll(EmptyTrie, {Name_car, Name_cat})

\* U+00A0 NO-BREAK SPACE: a char for which char::is_whitespace holds and
\* that takes two bytes in a &str.
NBSP == "nbsp"

\* char::is_whitespace
IsWhitespace(c) == c \in {SP, TAB, NBSP}

\* char::len_utf8
LenUtf8(c) == IF c = NBSP THEN 2 ELSE 1

\* The byte offset just after the first k chars of a &str (str::len for k = Len).
RECURSIVE ByteOffset(_, _)
ByteOffset(line, k) == IF k = 0 THEN 0 ELSE ByteOffset(line, k - 1) + LenUtf8(line[k])

\* The cursor positions the line editor passes: byte offsets on a char boundary.
CursorPositions(line) == {ByteOffset(line, k) : k \in 0..Len(line)}

\* line[..pos] : the number of chars before the cursor.
CharsBefore(line, pos) == CHOOSE k \in 0..Len(line) : ByteOffset(line, k) = pos

\* complete, lines 204-209: the last char before the cursor that is whitespace
\* (at byte offset i) gives (i + 1, &line[i + 1..pos]), none gives
\* (0, &line[..pos]).  The slice panics when i + 1 is not a char boundary.
WordAtCursor(line, pos) ==
    LET n == CharsBefore(line, pos)
        whitespace == {k \in 1..n : IsWhitespace(line[k])}
    IN  IF whitespace = {}
        THEN [sliced |-> TRUE, word_start |-> 0, word |-> SubSeq(line, 1, n)]
        ELSE LET k == CHOOSE j \in whitespace : \A l \in whitespace : l <= j
                 i == ByteOffset(line, k - 1)
             IN  IF LenUtf8(line[k]) = 1
                 THEN [sliced |-> TRUE, word_start |-> i + 1, word |-> SubSeq(line, k + 1, n)]
                 ELSE [sliced |-> FALSE, word_start |-> i + 1, word |-> <<>>]

\* Characters typed at the prompt, and the lines the line editor holds.
HelperAlphabet == {"c", SP, BS, NBSP}

HelperLines == UNION {[1..k -> HelperAlphabet] : k \in 0..MaxLen}

\* The tries a RustylineHelper completes from.
HelperTries ==
    {InsertAll(EmptyTrie, names) : names \in {{Name_cd}, {Name_cd, Name_cat, Name_car}}}

\* complete is not being called.
NoComplete ==
    [op |-> "none", line |-> <<>>, pos |-> 0, sliced |-> FALSE, word_start |-> 0,
     word |-> <<>>, panicked |-> FALSE, ret |-> <<>>]

\* The statics and the trie at process start, nothing called.
TrieIdle ==
    /\ trie = EmptyTrie
    /\ LAST_TAB_TIME = 0
    /\ TAB_PRESSED = FALSE
    /\ overflow_checks = FALSE
    /\ inserted = {}
    /\ ambiguous_seen = FALSE
    /\ completion = NoCall

\* No CompletionEngine exists.
EngineIdle ==
    /\ builtin_commands = {}
    /\ path_dirs = <<>>
    /\ refresher = IdleRefresher
    /\ rwlock = [writer |-> FALSE, readers |-> 0]
    /\ completers = <<>>

\* No line is being parsed.
ParserIdle ==
    /\ chars = <<>>
    /\ position = 0
    /\ tokens = <<>>
    /\ word = <<>>
    /\ in_quotes = None
    /\ pc = "done"
    /\ tokens_iter = 0
    /\ command_parts = EmptyParts
    /\ round_trip = NoRoundTrip
    /\ shell = NoShell
    /\ helper = NoComplete

----------------------------------------------------------------------------
\* CommandParser::parse(input): Lexer::new(input), the empty CommandParts.
Init ==
    /\ chars \in Lines \cup ExampleLines
    /\ position = 0
    /\ tokens = <<>>
    /\ word = <<>>
    /\ in_quotes = None
    /\ pc = "tokenize"
    /\ tokens_iter = 0
    /\ command_parts = EmptyParts
    /\ round_trip = NoRoundTrip
    /\ shell = NoShell
    /\ helper = NoComplete
    /\ TrieIdle
    /\ EngineIdle

\* The assembler loop of parse on a token sequence the lexer can return.
InitAsm ==
    /\ chars = <<>>
    /\ position = 0
    /\ tokens \in TokenSeqs
    /\ word = <<>>
    /\ in_quotes = None
    /\ pc = "parse"
    /\ tokens_iter = 0
    /\ command_parts = EmptyParts
    /\ round_trip = NoRoundTrip
    /\ shell = NoShell
    /\ helper = NoComplete
    /\ TrieIdle
    /\ EngineIdle

TokenizeWhitespace ==
    /\ pc = "tokenize"
    /\ Peek(chars, position) \in {SP, TAB}
    /\ position' = Advance(chars, position)
    /\ UNCHANGED <<chars, tokens, word, in_quotes, pc, tokens_iter, command_parts>>
    /\ UNCHANGED <<round_trip, shell, helper, trie_vars, engine_vars>>

TokenizeGt ==
    /\ pc = "tokenize"
    /\ Peek(chars, position) = GT
    /\ LET r == TokGt(chars, position, tokens) IN
         position' = r.position /\ tokens' = r.tokens
    /\ UNCHANGED <<chars, word, in_quotes, pc, tokens_iter, command_parts>>
    /\ UNCHANGED <<round_trip, shell, helper, trie_vars, engine_vars>>

TokenizeOne ==
    /\ pc = "tokenize"
    /\ Peek(chars, position) = ONE
    /\ LET r == TokOne(chars, position, tokens) IN
         position' = r.position /\ tokens' = r.tokens
    /\ UNCHANGED <<chars, word, in_quotes, pc, tokens_iter, command_parts>>
    /\ UNCHANGED <<round_trip, shell, helper, trie_vars, engine_vars>>

TokenizeTwo ==
    /\ pc = "tokenize"
    /\ Peek(chars, position) = TWO
    /\ LET r == TokTwo(chars, position, tokens) IN
         position' = r.position /\ tokens' = r.tokens
    /\ UNCHANGED <<chars, word, in_quotes, pc, tokens_iter, command_parts>>
    /\ UNCHANGED <<round_trip, shell, helper, trie_vars, engine_vars>>

TokenizePipe ==
    /\ pc = "tokenize"
    /\ Peek(chars, position) = PIPE
    /\ position' = Advance(chars, position)
    /\ tokens' = Append(tokens, Pipe)
    /\ UNCHANGED <<chars, word, in_quotes, pc, tokens_iter, command_parts>>
    /\ UNCHANGED <<round_trip, shell, helper, trie_vars, engine_vars>>

TokenizeBackground ==
    /\ pc = "tokenize"
    /\ Peek(chars, position) = AMP
    /\ position' = Advance(chars, position)
    /\ tokens' = Append(tokens, Background)
    /\ UNCHANGED <<chars, word, in_quotes, pc, tokens_iter, command_parts>>
    /\ UNCHANGED <<round_trip, shell, helper, trie_vars, engine_vars>>

\* arm _ : read_word is entered with an empty word outside quotes.
TokenizeWord ==
    /\ pc = "tokenize"
    /\ Peek(chars, position) \notin {None, SP, TAB, GT, ONE, TWO, PIPE, AMP}
    /\ pc' = "read_word"
    /\ word' = <<>>
    /\ in_quotes' = None
    /\ UNCHANGED <<chars, position, tokens, tokens_iter, command_parts>>
    /\ UNCHANGED <<round_trip, shell, helper, trie_vars, engine_vars>>

\* tokenize's loop ends; parse starts to iterate over the tokens.
TokenizeReturn ==
    /\ pc = "tokenize"
    /\ Peek(chars, position) = None
    /\ pc' = "parse"
    /\ tokens_iter' = 0
    /\ UNCHANGED <<chars, position, tokens, word, in_quotes, command_parts>>
    /\ UNCHANGED <<round_trip, shell, helper, trie_vars, engine_vars>>

ReadWordQuote ==
    /\ pc = "read_word"
    /\ Peek(chars, position) \in {DQ, SQ}
    /\ LET r == ReadQuote(word, in_quotes, Peek(chars, position)) IN
         word' = r.word /\ in_quotes' = r.in_quotes
    /\ position' = Advance(chars, position)
    /\ UNCHANGED <<chars, tokens, pc, tokens_iter, command_parts>>
    /\ UNCHANGED <<round_trip, shell, helper, trie_vars, engine_vars>>

ReadWordBackslash ==
    /\ pc = "read_word"
    /\ Peek(chars, position) = BS
    /\ LET r == ReadBackslash(chars, position, word, in_quotes) IN
         position' = r.position /\ word' = r.word
    /\ UNCHANGED <<chars, tokens, in_quotes, pc, tokens_iter, command_parts>>
    /\ UNCHANGED <<round_trip, shell, helper, trie_vars, engine_vars>>

ReadWordChar ==
    /\ pc = "read_word"
    /\ Peek(chars, position) \notin {None, DQ, SQ, BS}
    /\ ~ReadBreaks(Peek(chars, position), in_quotes)
    /\ word' = Append(word, Peek(chars, position))
    /\ position' = Advance(chars, position)
    /\ UNCHANGED <<chars, tokens, in_quotes, pc, tokens_iter, command_parts>>
    /\ UNCHANGED <<round_trip, shell, helper, trie_vars, engine_vars>>

\* read_word breaks at unquoted whitespace and returns to tokenize's arm _.
ReadWordBreak ==
    /\ pc = "read_word"
    /\ Peek(chars, position) # None
    /\ ReadBreaks(Peek(chars, position), in_quotes)
    /\ tokens' = PushWord(tokens, word)
    /\ pc' = "tokenize"
    /\ UNCHANGED <<chars, position, word, in_quotes, tokens_iter, command_parts>>
    /\ UNCHANGED <<round_trip, shell, helper, trie_vars, engine_vars>>

\* read_word's loop ends with the input and returns to tokenize's arm _.
ReadWordEnd ==
    /\ pc = "read_word"
    /\ Peek(chars, position) = None
    /\ tokens' = PushWord(tokens, word)
    /\ pc' = "tokenize"
    /\ UNCHANGED <<chars, position, word, in_quotes, tokens_iter, command_parts>>
    /\ UNCHANGED <<round_trip, shell, helper, trie_vars, engine_vars>>

ParseWord ==
    /\ pc = "parse"
    /\ tokens_iter < Len(tokens)
    /\ tokens[tokens_iter + 1].kind = "Word"
    /\ LET r == ParseIter(tokens, tokens_iter, command_parts) IN
         tokens_iter' = r.tokens_iter /\ command_parts' = r.command_parts
    /\ UNCHANGED <<chars, position, tokens, word, in_quotes, pc>>
    /\ UNCHANGED <<round_trip, shell, helper, trie_vars, engine_vars>>

ParseOutputRedirect ==
    /\ pc = "parse"
    /\ tokens_iter < Len(tokens)
    /\ tokens[tokens_iter + 1].kind = "OutputRedirect"
    /\ LET r == ParseIter(tokens, tokens_iter, command_parts) IN
         tokens_iter' = r.tokens_iter /\ command_parts' = r.command_parts
    /\ UNCHANGED <<chars, position, tokens, word, in_quotes, pc>>
    /\ UNCHANGED <<round_trip, shell, helper, trie_vars, engine_vars>>

ParseErrorRedirect ==
    /\ pc = "parse"
    /\ tokens_iter < Len(tokens)
    /\ tokens[tokens_iter + 1].kind = "ErrorRedirect"
    /\ LET r == ParseIter(tokens, tokens_iter, command_parts) IN
         tokens_iter' = r.tokens_iter /\ command_parts' = r.command_parts
    /\ UNCHANGED <<chars, position, tokens, word, in_quotes, pc>>
    /\ UNCHANGED <<round_trip, shell, helper, trie_vars, engine_vars>>

ParseOther ==
    /\ pc = "parse"
    /\ tokens_iter < Len(tokens)
    /\ tokens[tokens_iter + 1].kind \in {"Pipe", "Background"}
    /\ LET r == ParseIter(tokens, tokens_iter, command_parts) IN
         tokens_iter' = r.tokens_iter /\ command_parts' = r.command_parts
    /\ UNCHANGED <<chars, position, tokens, word, in_quotes, pc>>
    /\ UNCHANGED <<round_trip, shell, helper, trie_vars, engine_vars>>

\* parse returns command_parts.
ParseReturn ==
    /\ pc = "parse"
    /\ tokens_iter >= Len(tokens)
    /\ pc' = "done"
    /\ UNCHANGED <<chars, position, tokens, word, in_quotes, tokens_iter, command_parts>>
    /\ UNCHANGED <<round_trip, shell, helper, trie_vars, engine_vars>>

NextAsm ==
    \/ ParseWord
    \/ ParseOutputRedirect
    \/ ParseErrorRedirect
    \/ ParseOther
    \/ ParseReturn

Next ==
    \/ TokenizeWhitespace
    \/ TokenizeGt
    \/ TokenizeOne
    \/ TokenizeTwo
    \/ TokenizePipe
    \/ TokenizeBackground
    \/ TokenizeWord
    \/ TokenizeReturn
    \/ ReadWordQuote
    \/ ReadWordBackslash
    \/ ReadWordChar
    \/ ReadWordBreak
    \/ ReadWordEnd
    \/ NextAsm

\* parse on a line.
Spec == Init /\ [][Next]_vars

\* parse's assembler loop on a token sequence.
SpecAsm == InitAsm /\ [][NextAsm]_vars

----------------------------------------------------------------------------
\* parse, the result written back as a line, and parse of that line.
InitRound ==
    /\ chars \in Lines \cup ExampleLines
    /\ position = 0
    /\ tokens = <<>>
    /\ word = <<>>
    /\ in_quotes = None
    /\ pc = "done"
    /\ tokens_iter = 0
    /\ command_parts = EmptyParts
    /\ round_trip = NoRoundTrip
    /\ shell = NoShell
    /\ helper = NoComplete
    /\ TrieIdle
    /\ EngineIdle

\* parse(serialize(parse(line))) with every word written as it is.
RoundTripPlain ==
    /\ round_trip.stage = "input"
    /\ LET first == ParseLine(chars)
           line == Serialize(first)
       IN  round_trip' = [stage |-> "plain", closed |-> Tokenize(chars).closed,
                          first |-> first, line |-> line, again |-> ParseLine(line)]
    /\ UNCHANGED <<chars, position, tokens, word, in_quotes, pc, tokens_iter, command_parts>>
    /\ UNCHANGED <<shell, helper, trie_vars, engine_vars>>

\* parse(serialize(parse(line))) with every character of every word escaped.
RoundTripEscaped ==
    /\ round_trip.stage = "input"
    /\ LET first == ParseLine(chars)
           line == SerializeEscaped(first)
       IN  round_trip' = [stage |-> "escaped", closed |-> Tokenize(chars).closed,
                          first |-> first, line |-> line, again |-> ParseLine(line)]
    /\ UNCHANGED <<chars, position, tokens, word, in_quotes, pc, tokens_iter, command_parts>>
    /\ UNCHANGED <<shell, helper, trie_vars, engine_vars>>

NextRound == RoundTripPlain \/ RoundTripEscaped

SpecRound == InitRound /\ [][NextRound]_vars

----------------------------------------------------------------------------
\* Shell::new: current_dir is the working directory of the process.
InitCd ==
    /\ chars = <<>>
    /\ position = 0
    /\ tokens = <<>>
    /\ word = <<>>
    /\ in_quotes = None
    /\ pc = "done"
    /\ tokens_iter = 0
    /\ command_parts = EmptyParts
    /\ round_trip = NoRoundTrip
    /\ \E home \in Homes, dirs \in SUBSET {Path_h, Path_hd, Path_d} :
          shell = [home |-> home, dirs |-> dirs \cup {Path_root}, cwd |-> Path_root,
                   current_dir |-> Path_root, last |-> NoCd]
    /\ helper = NoComplete
    /\ TrieIdle
    /\ EngineIdle

\* execute_builtin for the command cd without redirects: CdCommand::execute,
\* then current_dir taken from the process when execute returned Ok.
Cd ==
    /\ \E args \in CdArgs :
          LET target == CdTarget(args, shell.home)
              fails == SetCurrentDirFails(shell.dirs, shell.cwd, target.output)
              cwd == IF target.kind = "Err" \/ fails THEN shell.cwd
                     ELSE Resolve(shell.cwd, target.output)
              result == IF target.kind = "Err" THEN target
                        ELSE IF fails THEN Ok(NoSuchDirectory(target.output))
                        ELSE Ok(<<>>)
          IN  shell' = [shell EXCEPT
                           !.cwd = cwd,
                           !.current_dir = IF target.kind = "Err" THEN shell.current_dir ELSE cwd,
                           !.last = [called |-> TRUE, args |-> args, cwd_before |-> shell.cwd,
                                     current_dir_before |-> shell.current_dir,
                                     result |-> result]]
    /\ UNCHANGED <<chars, position, tokens, word, in_quotes, pc, tokens_iter, command_parts>>
    /\ UNCHANGED <<round_trip, helper, trie_vars, engine_vars>>

NextCd == Cd

\* cd executed again and again by one shell.
SpecCd == InitCd /\ [][NextCd]_vars

----------------------------------------------------------------------------
\* A TrieNode on its own: insert and find_common_prefix called in any order,
\* one call at a time.
InitTrie ==
    /\ ParserIdle
    /\ EngineIdle
    /\ trie = EmptyTrie
    /\ LAST_TAB_TIME = 0
    /\ TAB_PRESSED = FALSE
    /\ overflow_checks \in BOOLEAN
    /\ inserted = {}
    /\ ambiguous_seen = FALSE
    /\ completion = NoCall

\* trie.insert(name)
Insert ==
    /\ completion.op = "none"
    /\ \E name \in NameUniverse :
          /\ name \in inserted \/ Cardinality(inserted) < MaxInserts
          /\ trie' = TrieInsert(trie, name)
          /\ inserted' = inserted \cup {name}
          /\ completion' = [NoCall EXCEPT !.op = "insert", !.prefix = name, !.before = trie]
    /\ UNCHANGED <<LAST_TAB_TIME, TAB_PRESSED, overflow_checks, ambiguous_seen>>
    /\ UNCHANGED <<parser_vars, engine_vars>>

\* index.find_common_prefix(prefix), the whole call, on the TrieNode t.
CompleteOn(t, index) ==
    /\ completion.op = "none"
    /\ \E prefix \in PrefixUniverse, ord \in ChildOrders, now \in 0..MaxElapsed :
          \E matches \in {FindPrefix(t, prefix, ord)} :
          \E r \in {FindCommonPrefix(matches, prefix, now, LAST_TAB_TIME, TAB_PRESSED,
                                     overflow_checks)} :
              /\ LAST_TAB_TIME' = r.LAST_TAB_TIME
              /\ TAB_PRESSED' = r.TAB_PRESSED
              /\ ambiguous_seen' = (ambiguous_seen \/ r.ambiguous)
              /\ completion' = [op |-> "find_common_prefix", index |-> index,
                                prefix |-> prefix,
                                before |-> t, matches |-> matches, now |-> now,
                                seen_before |-> ambiguous_seen,
                                statics_before |-> <<LAST_TAB_TIME, TAB_PRESSED>>,
                                common_prefix |-> r.common_prefix,
                                ret |-> r.ret, printed |-> r.printed,
                                panicked |-> r.panicked, ambiguous |-> r.ambiguous]
    /\ UNCHANGED <<trie, overflow_checks, inserted>>
    /\ UNCHANGED <<parser_vars, engine_vars>>

\* trie.find_common_prefix(prefix)
Complete == CompleteOn(trie, "this")

\* find_common_prefix on the trie of a second CompletionEngine of the process.
CompleteOther == CompleteOn(OtherTrie, "other")

\* The call returns to its caller.
Return ==
    /\ completion.op # "none"
    /\ completion' = NoCall
    /\ UNCHANGED <<trie, LAST_TAB_TIME, TAB_PRESSED, overflow_checks, inserted, ambiguous_seen>>
    /\ UNCHANGED <<parser_vars, engine_vars>>

NextTrie == Insert \/ Complete \/ CompleteOther \/ Return

\* insert and find_common_prefix on one TrieNode.
SpecTrie == InitTrie /\ [][NextTrie]_vars

----------------------------------------------------------------------------
\* A RustylineHelper whose trie is built: the line editor calls complete.
InitHelper ==
    /\ ParserIdle
    /\ EngineIdle
    /\ trie \in HelperTries
    /\ LAST_TAB_TIME = 0
    /\ TAB_PRESSED = FALSE
    /\ overflow_checks \in BOOLEAN
    /\ inserted = {}
    /\ ambiguous_seen = FALSE
    /\ completion = NoCall

\* Completer::complete(line, pos), the whole call: the word before the cursor,
\* find_common_prefix on the trie, Ok((word_start, candidates)).
HelperComplete ==
    /\ helper.op = "none"
    /\ \E line \in HelperLines, ord \in ChildOrders, now \in 0..MaxElapsed :
          \E pos \in CursorPositions(line) :
          \E w \in {WordAtCursor(line, pos)} :
          \E r \in {FindCommonPrefix(FindPrefix(trie, w.word, ord), w.word, now,
                                     LAST_TAB_TIME, TAB_PRESSED, overflow_checks)} :
              IF ~w.sliced
              THEN /\ helper' = [op |-> "complete", line |-> line, pos |-> pos,
                                 sliced |-> FALSE, word_start |-> w.word_start,
                                 word |-> <<>>, panicked |-> TRUE, ret |-> <<>>]
                   /\ UNCHANGED <<LAST_TAB_TIME, TAB_PRESSED, ambiguous_seen>>
              ELSE /\ helper' = [op |-> "complete", line |-> line, pos |-> pos,
                                 sliced |-> TRUE, word_start |-> w.word_start,
                                 word |-> w.word, panicked |-> r.panicked,
                                 ret |-> IF r.panicked THEN <<>>
                                         ELSE <<w.word_start, r.ret>>]
                   /\ LAST_TAB_TIME' = r.LAST_TAB_TIME
                   /\ TAB_PRESSED' = r.TAB_PRESSED
                   /\ ambiguous_seen' = (ambiguous_seen \/ r.ambiguous)
    /\ UNCHANGED <<trie, overflow_checks, inserted, completion>>
    /\ UNCHANGED <<chars, position, tokens, word, in_quotes, pc, tokens_iter, command_parts>>
    /\ UNCHANGED <<round_trip, shell, engine_vars>>

\* complete has returned to the line editor.
HelperReturn ==
    /\ helper.op # "none"
    /\ helper' = NoComplete
    /\ UNCHANGED <<chars, position, tokens, word, in_quotes, pc, tokens_iter, command_parts>>
    /\ UNCHANGED <<round_trip, shell, trie_vars, engine_vars>>

NextHelper == HelperComplete \/ HelperReturn

\* complete called again and again on one helper.
SpecHelper == InitHelper /\ [][NextHelper]_vars

----------------------------------------------------------------------------
\* A CompletionEngine: refresh_cache, the file system under it, and the
\* threads that complete through the shared trie.

\* The statics at process start and the trie of CompletionEngine::new.
EngineStatics ==
    /\ trie = EmptyTrie
    /\ LAST_TAB_TIME = 0
    /\ TAB_PRESSED = FALSE
    /\ inserted = {}
    /\ ambiguous_seen = FALSE
    /\ completion = NoCall

\* CompletionEngine::new over a PATH of two directories, no completing thread.
InitRefresh ==
    /\ ParserIdle
    /\ EngineStatics
    /\ overflow_checks = FALSE
    /\ builtin_commands \in BuiltinSets
    /\ path_dirs \in [1..2 -> DirStates]
    /\ refresher = IdleRefresher
    /\ rwlock = [writer |-> FALSE, readers |-> 0]
    /\ completers = <<>>

\* CompletionEngine::new over a PATH of one directory, and the completing threads.
InitConc ==
    /\ ParserIdle
    /\ EngineStatics
    /\ overflow_checks \in BOOLEAN
    /\ builtin_commands = {Name_cd}
    /\ path_dirs \in [1..1 -> DirStates]
    /\ refresher = IdleRefresher
    /\ rwlock = [writer |-> FALSE, readers |-> 0]
    /\ completers = [t \in Threads |-> IdleThread]

\* A directory of PATH changes: entries appear or go, or it becomes
\* unreadable or readable.
FsChange ==
    /\ \E i \in DOMAIN path_dirs :
          \E d \in DirStates :
             /\ d # path_dirs[i]
             /\ path_dirs' = [path_dirs EXCEPT ![i] = d]
    /\ refresher' = [refresher EXCEPT !.clean_runs = 0, !.tainted = TRUE]
    /\ UNCHANGED <<builtin_commands, rwlock, completers>>
    /\ UNCHANGED <<parser_vars, trie_vars>>

\* refresh_cache: let mut trie = self.trie.write().unwrap();
RefreshLock ==
    /\ refresher.pc = "idle"
    /\ CanWrite(rwlock)
    /\ rwlock' = [rwlock EXCEPT !.writer = TRUE]
    /\ refresher' = [refresher EXCEPT !.pc = "builtins", !.before = trie, !.tainted = FALSE]
    /\ UNCHANGED <<builtin_commands, path_dirs, completers>>
    /\ UNCHANGED <<parser_vars, trie_vars>>

\* refresh_cache: for cmd in &self.builtin_commands { trie.insert(cmd.clone()); }
RefreshBuiltins ==
    /\ refresher.pc = "builtins"
    /\ trie' = InsertAll(trie, builtin_commands)
    /\ refresher' = [refresher EXCEPT !.pc = "dirs", !.dir = 1]
    /\ UNCHANGED <<LAST_TAB_TIME, TAB_PRESSED, overflow_checks, inserted, ambiguous_seen, completion>>
    /\ UNCHANGED <<builtin_commands, path_dirs, rwlock, completers>>
    /\ UNCHANGED parser_vars

\* refresh_cache: one directory of PATH, read and inserted.
RefreshDir ==
    /\ refresher.pc = "dirs"
    /\ refresher.dir <= Len(path_dirs)
    /\ trie' = InsertAll(trie, ReadDir(path_dirs[refresher.dir]))
    /\ refresher' = [refresher EXCEPT !.dir = refresher.dir + 1]
    /\ UNCHANGED <<LAST_TAB_TIME, TAB_PRESSED, overflow_checks, inserted, ambiguous_seen, completion>>
    /\ UNCHANGED <<builtin_commands, path_dirs, rwlock, completers>>
    /\ UNCHANGED parser_vars

\* refresh_cache returns: the write guard is dropped.
RefreshUnlock ==
    /\ refresher.pc = "dirs"
    /\ refresher.dir > Len(path_dirs)
    /\ rwlock' = [rwlock EXCEPT !.writer = FALSE]
    /\ refresher' = [refresher EXCEPT
                        !.pc = "idle", !.dir = 0, !.constructed = TRUE, !.tainted = FALSE,
                        !.clean_runs = IF refresher.tainted THEN 0
                                       ELSE IF refresher.clean_runs = 0 THEN 1 ELSE 2]
    /\ UNCHANGED <<builtin_commands, path_dirs, completers>>
    /\ UNCHANGED <<parser_vars, trie_vars>>

\* complete: self.completion_engine.trie.read().unwrap()
CompleteRead(t) ==
    /\ refresher.constructed
    /\ completers[t].pc = "idle"
    /\ CanRead(rwlock)
    /\ rwlock' = [rwlock EXCEPT !.readers = rwlock.readers + 1]
    /\ completers' = [completers EXCEPT ![t] = [IdleThread EXCEPT !.pc = "reading", !.seen = trie]]
    /\ UNCHANGED <<builtin_commands, path_dirs, refresher>>
    /\ UNCHANGED <<parser_vars, trie_vars>>

\* find_common_prefix returns before line 104: no match, one match or an
\* extension; the read guard is dropped.
CompleteReturn(t) ==
    /\ completers[t].pc = "reading"
    /\ \E prefix \in PrefixUniverse, ord \in ChildOrders :
          ~IsAmbiguous(FindPrefix(trie, prefix, ord), prefix)
    /\ rwlock' = [rwlock EXCEPT !.readers = rwlock.readers - 1]
    /\ completers' = [completers EXCEPT ![t] = IdleThread]
    /\ UNCHANGED <<builtin_commands, path_dirs, refresher>>
    /\ UNCHANGED <<parser_vars, trie_vars>>

\* find_common_prefix, lines 105-106: now is taken and LAST_TAB_TIME loaded.
CompleteLoad(t) ==
    /\ completers[t].pc = "reading"
    /\ \E prefix \in PrefixUniverse, ord \in ChildOrders :
          IsAmbiguous(FindPrefix(trie, prefix, ord), prefix)
    /\ \E now \in 0..MaxElapsed :
          completers' = [completers EXCEPT ![t] = [@ EXCEPT !.pc = "loaded", !.now = now,
                                                            !.last_tab = LAST_TAB_TIME]]
    /\ UNCHANGED <<builtin_commands, path_dirs, refresher, rwlock>>
    /\ UNCHANGED <<parser_vars, trie_vars>>

\* find_common_prefix, lines 108-116: the subtraction panics and the thread
\* unwinds, or the matches are printed or not and TAB_PRESSED is stored.
CompleteCompare(t) ==
    /\ completers[t].pc = "loaded"
    /\ IF SubtractPanics(completers[t].now, completers[t].last_tab, overflow_checks)
       THEN /\ rwlock' = [rwlock EXCEPT !.readers = rwlock.readers - 1]
            /\ completers' = [completers EXCEPT ![t] = IdleThread]
            /\ UNCHANGED TAB_PRESSED
       ELSE /\ TAB_PRESSED' = ~WithinDoubleTab(completers[t].now, completers[t].last_tab)
            /\ completers' = [completers EXCEPT ![t] = [@ EXCEPT !.pc = "compared"]]
            /\ UNCHANGED rwlock
    /\ UNCHANGED <<trie, LAST_TAB_TIME, overflow_checks, inserted, ambiguous_seen, completion>>
    /\ UNCHANGED <<builtin_commands, path_dirs, refresher>>
    /\ UNCHANGED parser_vars

\* find_common_prefix, lines 118-119: LAST_TAB_TIME.store(now), None returned
\* and the read guard dropped.
CompleteStore(t) ==
    /\ completers[t].pc = "compared"
    /\ LAST_TAB_TIME' = completers[t].now
    /\ rwlock' = [rwlock EXCEPT !.readers = rwlock.readers - 1]
    /\ completers' = [completers EXCEPT ![t] = IdleThread]
    /\ UNCHANGED <<trie, TAB_PRESSED, overflow_checks, inserted, ambiguous_seen, completion>>
    /\ UNCHANGED <<builtin_commands, path_dirs, refresher>>
    /\ UNCHANGED parser_vars

NextRefresh ==
    \/ FsChange
    \/ RefreshLock
    \/ RefreshBuiltins
    \/ RefreshDir
    \/ RefreshUnlock

NextConc ==
    \/ NextRefresh
    \/ \E t \in Threads : CompleteRead(t)
    \/ \E t \in Threads : CompleteReturn(t)
    \/ \E t \in Threads : CompleteLoad(t)
    \/ \E t \in Threads : CompleteCompare(t)
    \/ \E t \in Threads : CompleteStore(t)

\* refresh_cache called again and again while the directories of PATH change.
SpecRefresh == InitRefresh /\ [][NextRefresh]_vars

\* refresh_cache and two completing threads on one engine.
SpecConc == InitConc /\ [][NextConc]_vars

----------------------------------------------------------------------------
\* Vocabulary of the properties.

IsRedirect(t) == t.kind \in {"OutputRedirect", "ErrorRedirect"}

StartsWith(cs, pos, s) ==
    /\ pos + Len(s) <= Len(cs)
    /\ SubSeq(cs, pos + 1, pos + Len(s)) = s

\* The redirection spelled at pos (longest spelling first); len = 0 when none is.
SpelledAt(cs, pos) ==
    CASE StartsWith(cs, pos, <<TWO, GT, GT>>) -> [len |-> 3, token |-> ErrorRedirect(TRUE)]
      [] StartsWith(cs, pos, <<TWO, GT>>) -> [len |-> 2, token |-> ErrorRedirect(FALSE)]
      [] StartsWith(cs, pos, <<ONE, GT, GT>>) -> [len |-> 3, token |-> OutputRedirect(TRUE)]
      [] StartsWith(cs, pos, <<ONE, GT>>) -> [len |-> 2, token |-> OutputRedirect(FALSE)]
      [] StartsWith(cs, pos, <<GT, GT>>) -> [len |-> 2, token |-> OutputRedirect(TRUE)]
      [] StartsWith(cs, pos, <<GT>>) -> [len |-> 1, token |-> OutputRedirect(FALSE)]
      [] OTHER -> [len |-> 0, token |-> Pipe]

\* Token i (1-based) is taken by the redirect token just before it, which the
\* assembler loop itself handles.
RECURSIVE TakenByRedirect(_, _)
TakenByRedirect(toks, i) ==
    /\ i > 1
    /\ IsRedirect(toks[i - 1])
    /\ ~TakenByRedirect(toks, i - 1)

\* The texts of all Word tokens from index i on, in order.
RECURSIVE WordTextsFrom(_, _)
WordTextsFrom(toks, i) ==
    IF i > Len(toks) THEN <<>>
    ELSE (IF toks[i].kind = "Word" THEN <<toks[i].text>> ELSE <<>>) \o WordTextsFrom(toks, i + 1)

\* The texts of the Word tokens no redirect takes, from index i on, in order.
RECURSIVE FreeWordTextsFrom(_, _)
FreeWordTextsFrom(toks, i) ==
    IF i > Len(toks) THEN <<>>
    ELSE (IF toks[i].kind = "Word" /\ ~TakenByRedirect(toks, i) THEN <<toks[i].text>> ELSE <<>>)
         \o FreeWordTextsFrom(toks, i + 1)

\* command followed by args, as one sequence (empty when there is no command).
CommandAndArgs(parts) ==
    IF parts.command = <<>> /\ parts.args = <<>> THEN <<>> ELSE <<parts.command>> \o parts.args

----------------------------------------------------------------------------
\* C1: at the start of a token, tokenize maps the six redirection spellings
\* exactly: > and 1> push OutputRedirect(false), >> and 1>> push
\* OutputRedirect(true), 2> pushes ErrorRedirect(false), 2>> pushes
\* ErrorRedirect(true), consuming exactly the spelling; and
\* parse("cmd 2>> err.log") has error_redirect = ("err.log", true) and
\* output_redirect = None.
C1_RedirectSpellings ==
    /\ [][(pc = "tokenize" /\ SpelledAt(chars, position).len > 0) =>
            /\ tokens' = Append(tokens, SpelledAt(chars, position).token)
            /\ position' = position + SpelledAt(chars, position).len
            /\ pc' = "tokenize"]_vars
    /\ []((pc = "done" /\ chars = LineCmdErrAppend) =>
            /\ command_parts.error_redirect = Redirect(Str_errlog, TRUE)
            /\ command_parts.output_redirect = NoRedirect
            /\ command_parts.command = Str_cmd
            /\ command_parts.args = <<>>)

\* C1 witness: parse("cmd 2>> err.log") has returned with the appending error redirect.
C1_Witness ==
    /\ pc = "done"
    /\ chars = LineCmdErrAppend
    /\ tokens = <<Word(Str_cmd), ErrorRedirect(TRUE), Word(Str_errlog)>>
    /\ command_parts.error_redirect = Redirect(Str_errlog, TRUE)

\* C2 as stated: the first Word token is the command and every subsequent Word
\* token is appended to args, in order.
C2_EveryWord ==
    pc = "done" => CommandAndArgs(command_parts) = WordTextsFrom(tokens, 1)

\* C2 amended: the first Word token that no redirect takes as its path is the
\* command and every subsequent Word token that no redirect takes is appended
\* to args, in the order of the token stream.
C2_FreeWords ==
    pc = "done" => CommandAndArgs(command_parts) = FreeWordTextsFrom(tokens, 1)

\* C2 witness: a command, a redirect path that is no argument, and an argument after it.
C2_Witness ==
    /\ pc = "done"
    /\ tokens = <<Word(<<"a">>), OutputRedirect(FALSE), Word(<<"b">>), Word(<<"a">>)>>
    /\ command_parts.command = <<"a">>
    /\ command_parts.args = << <<"a">> >>
    /\ command_parts.output_redirect = Redirect(<<"b">>, FALSE)

\* The last index i with toks[i] of the given kind and toks[i + 1] a Word; 0 when none.
LastPair(toks, kind) ==
    LET S == {i \in 1..(Len(toks) - 1) : toks[i].kind = kind /\ toks[i + 1].kind = "Word"}
    IN  IF S = {} THEN 0 ELSE CHOOSE i \in S : \A j \in S : j <= i

\* C3: when an OutputRedirect(append) token is immediately followed by a Word
\* w, the parsed command has output_redirect = (w, append) (of the last such
\* pair, when there are several) and w is neither the command nor an
\* argument; when no OutputRedirect is followed by a word the redirect is
\* dropped; parse("echo hello > output.txt") gives command "echo", args
\* ["hello"], output_redirect ("output.txt", false), error_redirect None.
C3_OutputRedirectPath ==
    pc = "done" =>
        LET i == LastPair(tokens, "OutputRedirect")
            notPath == {j \in 1..Len(tokens) :
                          /\ tokens[j].kind = "Word"
                          /\ ~(j > 1 /\ tokens[j - 1].kind = "OutputRedirect")}
        IN  /\ i > 0 => command_parts.output_redirect
                          = Redirect(tokens[i + 1].text, tokens[i].append)
            /\ i = 0 => command_parts.output_redirect = NoRedirect
            /\ Len(CommandAndArgs(command_parts)) <= Cardinality(notPath)
            /\ chars = LineEchoHelloOut =>
                 command_parts = [command |-> Str_echo, args |-> <<Str_hello>>,
                                  output_redirect |-> Redirect(Str_outtxt, FALSE),
                                  error_redirect |-> NoRedirect]

\* C4: a word terminates at unescaped, unquoted whitespace or at the start of
\* an operator character: on a line without quotes and backslashes no Word
\* token contains >, | or &, and a>b yields Word("a"), OutputRedirect(false),
\* Word("b").
C4_WordEndsAtOperator ==
    pc = "done" =>
        /\ (\A k \in 1..Len(chars) : chars[k] \notin {SQ, DQ, BS}) =>
             \A i \in 1..Len(tokens) :
                tokens[i].kind = "Word" =>
                   \A k \in 1..Len(tokens[i].text) : tokens[i].text[k] \notin {GT, PIPE, AMP}
        /\ chars = LineAGtB =>
             tokens = <<Word(<<"a">>), OutputRedirect(FALSE), Word(<<"b">>)>>

\* C5: inside single quotes no character is special except the closing single
\* quote: an iteration of read_word inside single quotes emits the characters
\* it consumes verbatim and passes over no single quote, and a single quote
\* under the cursor always closes the quote, also right after a backslash.
C5_SingleQuoteLiteral ==
    [][(pc = "read_word" /\ in_quotes = SQ /\ position < Len(chars)) =>
          IF chars[position + 1] = SQ
          THEN in_quotes' = None /\ word' = word /\ position' = position + 1
          ELSE /\ position' > position
               /\ word' = word \o SubSeq(chars, position + 1, position')
               /\ in_quotes' = SQ
               /\ \A k \in (position + 1)..position' : chars[k] # SQ]_vars

\* C6: inside double quotes a backslash followed by " or \ is consumed and only
\* the following character is emitted (an escaped " does not close the quote);
\* a backslash followed by any other character emits both; unescaped spaces,
\* tabs and single quotes inside double quotes are emitted literally.
C6_DoubleQuoteEscapes ==
    /\ [][(pc = "read_word" /\ in_quotes = DQ /\ position < Len(chars)) =>
            LET ch == chars[position + 1] IN
            CASE ch = BS /\ position + 1 < Len(chars) ->
                   /\ word' = IF chars[position + 2] \in {DQ, BS}
                              THEN Append(word, chars[position + 2])
                              ELSE word \o <<BS, chars[position + 2]>>
                   /\ position' = position + 2
                   /\ in_quotes' = DQ
                   /\ pc' = "read_word"
              [] ch \in {SP, TAB, SQ} ->
                   /\ word' = Append(word, ch)
                   /\ position' = position + 1
                   /\ in_quotes' = DQ
                   /\ pc' = "read_word"
              [] OTHER -> TRUE]_vars
    /\ [](pc = "done" =>
            /\ chars = <<DQ, BS, DQ, DQ>> => tokens = <<Word(<<DQ>>)>>
            /\ chars = <<DQ, BS, BS, DQ>> => tokens = <<Word(<<BS>>)>>
            /\ chars = <<DQ, BS, "n", DQ>> => tokens = <<Word(<<BS, "n">>)>>
            /\ chars = <<DQ, BS, SQ, DQ>> => tokens = <<Word(<<BS, SQ>>)>>
            /\ chars = <<DQ, SP, SQ, DQ>> => tokens = <<Word(<<SP, SQ>>)>>)

\* C6 witness: an escaped double quote has been emitted and the quote is still open.
C6_Witness ==
    /\ pc = "read_word"
    /\ in_quotes = DQ
    /\ chars = <<DQ, BS, DQ, DQ>>
    /\ position = 3
    /\ word = <<DQ>>

\* C7: outside any quotes a backslash followed by any character c is consumed
\* and exactly c is appended to the current word, whatever c is: the word is
\* not split, no quote is opened, no operator is tokenized, and \n yields n.
C7_UnquotedBackslash ==
    /\ [][(pc = "read_word" /\ in_quotes = None /\ position + 1 < Len(chars)
           /\ chars[position + 1] = BS) =>
            /\ word' = Append(word, chars[position + 2])
            /\ position' = position + 2
            /\ in_quotes' = None
            /\ pc' = "read_word"
            /\ tokens' = tokens]_vars
    /\ [][(pc = "tokenize" /\ position < Len(chars) /\ chars[position + 1] = BS) =>
            /\ pc' = "read_word"
            /\ word' = <<>>
            /\ in_quotes' = None
            /\ position' = position
            /\ tokens' = tokens]_vars
    /\ [](pc = "done" =>
            /\ (Len(chars) = 2 /\ chars[1] = BS) => tokens = <<Word(<<chars[2]>>)>>
            /\ (Len(chars) = 4 /\ chars[1] = "n" /\ chars[2] = BS /\ chars[4] = "n") =>
                 tokens = <<Word(<<"n", chars[3], "n">>)>>)

\* C7 witness: an escaped space has been read into the middle of one word.
C7_Witness ==
    /\ pc = "done"
    /\ chars = <<"n", BS, SP, "n">>
    /\ tokens = <<Word(<<"n", SP, "n">>)>>

\* C8 as stated: the command of the result is empty only if the line
\* contained no words.
C8_NoWords ==
    (pc = "done" /\ command_parts.command = <<>>) =>
        \A i \in 1..Len(tokens) : tokens[i].kind # "Word"

\* C8 amended: the command of the result is empty only if every word of the
\* line directly follows a redirect token, which took it as its path (so also
\* when the line has no words); args is empty then.
C8_OnlyRedirectPaths ==
    (pc = "done" /\ command_parts.command = <<>>) =>
        /\ command_parts.args = <<>>
        /\ \A i \in 1..Len(tokens) :
              tokens[i].kind = "Word" => (i > 1 /\ IsRedirect(tokens[i - 1]))

\* C8 witness: a line whose only word is a redirect path has an empty command.
C8_Witness ==
    /\ pc = "done"
    /\ command_parts.command = <<>>
    /\ tokens = <<OutputRedirect(FALSE), Word(<<"n">>)>>
    /\ command_parts.output_redirect = Redirect(<<"n">>, FALSE)

\* The redirect field of a kind of redirect token.
RedirectField(parts, kind) ==
    IF kind = "OutputRedirect" THEN parts.output_redirect ELSE parts.error_redirect

\* C9: last-wins: when a line contains several redirect tokens of the same
\* kind, each followed by a Word, the recorded redirect of that kind is the
\* (path, append) of the last such pair, whatever the tokens of the other
\* kind are.
C9_LastWins ==
    pc = "done" =>
        \A kind \in {"OutputRedirect", "ErrorRedirect"} :
            LET P == {i \in 1..Len(tokens) : tokens[i].kind = kind}
                last == LastPair(tokens, kind)
            IN  (/\ Cardinality(P) >= 2
                 /\ \A i \in P : i < Len(tokens) /\ tokens[i + 1].kind = "Word") =>
                    RedirectField(command_parts, kind)
                      = Redirect(tokens[last + 1].text, tokens[last].append)

IsInert(t) == t.kind \in {"Pipe", "Background"}

NotInert(t) == ~IsInert(t)

\* toks from index i on, without the Pipe and Background tokens that do not
\* directly follow a redirect token.
RECURSIVE DropFreeInertFrom(_, _)
DropFreeInertFrom(toks, i) ==
    IF i > Len(toks) THEN <<>>
    ELSE (IF IsInert(toks[i]) /\ ~(i > 1 /\ IsRedirect(toks[i - 1])) THEN <<>> ELSE <<toks[i]>>)
         \o DropFreeInertFrom(toks, i + 1)

\* C10 as stated: deleting all Pipe and Background tokens from the token
\* sequence leaves the assembled command, args and redirects unchanged.
C10_DeleteAllInert ==
    pc = "done" => command_parts = Assemble(SelectSeq(tokens, NotInert))

\* C10 amended: deleting every Pipe and Background token that does not
\* directly follow a redirect token leaves the assembled command, args,
\* output_redirect and error_redirect unchanged.
C10_DeleteFreeInert ==
    pc = "done" => command_parts = Assemble(DropFreeInertFrom(tokens, 1))

\* C10 witness: a Pipe between a command and its redirect has been passed over.
C10_Witness ==
    /\ pc = "done"
    /\ tokens = <<Word(<<"a">>), Pipe, OutputRedirect(TRUE), Word(<<"b">>)>>
    /\ command_parts.command = <<"a">>
    /\ command_parts.output_redirect = Redirect(<<"b">>, TRUE)

----------------------------------------------------------------------------
\* Vocabulary of the properties of the completion index.

SeqToSet(s) == {s[i] : i \in 1..Len(s)}

Occurrences(s, x) == Cardinality({i \in 1..Len(s) : s[i] = x})

IsPrefixOf(p, n) == Len(p) <= Len(n) /\ \A i \in 1..Len(p) : n[i] = p[i]

\* The inserted names that have p as a prefix.
NamesWithPrefix(p) == {n \in inserted : IsPrefixOf(p, n)}

\* The names a trie holds as terminal entries.
TerminalNames(t) == {p \in DOMAIN t : t[p].is_end}

FoundByCall == completion.op = "find_common_prefix" /\ completion.index = "this"

\* C11: after any sequence of inserts the matches found for a partial are
\* exactly the inserted names that have the partial as a prefix, each once; a
\* partial with a character that has no child finds nothing and suggests
\* nothing; the empty partial finds every inserted name.
C11_FindPrefix ==
    FoundByCall =>
        /\ SeqToSet(completion.matches) = NamesWithPrefix(completion.prefix)
        /\ \A n \in inserted : Occurrences(completion.matches, n) <= 1
        /\ (completion.prefix \notin DOMAIN trie =>
               /\ completion.matches = <<>>
               /\ completion.ret = NoCompletion
               /\ completion.printed = <<>>)
        /\ (completion.prefix = <<>> => SeqToSet(completion.matches) = inserted)

\* A search that finds two of three inserted names, and one that finds none.
C11_Witness ==
    /\ FoundByCall
    /\ Cardinality(inserted) = 3
    /\ Len(completion.matches) = 2
    /\ completion.prefix = Name_ca

\* C12: when exactly one inserted name has the partial as a prefix, the call
\* returns that name followed by one space, also when the partial is the whole
\* name, whatever LAST_TAB_TIME and TAB_PRESSED hold, and it prints nothing.
C12_SingleMatch ==
    (FoundByCall /\ Cardinality(NamesWithPrefix(completion.prefix)) = 1) =>
        /\ \E n \in NamesWithPrefix(completion.prefix) : completion.ret = <<Append(n, " ")>>
        /\ completion.printed = <<>>
        /\ ~completion.panicked

\* The partial is the whole name pwd and a double press is pending.
C12_Witness ==
    /\ FoundByCall
    /\ NamesWithPrefix(completion.prefix) = {Name_pwd}
    /\ completion.prefix = Name_pwd
    /\ completion.ret = <<Append(Name_pwd, " ")>>
    /\ TAB_PRESSED

\* C13: with two or more matches the candidate left by sorting and shrinking is
\* the longest common prefix of all matches: a prefix of every match, no longer
\* string is, and the partial is a prefix of it; the call returns it exactly
\* when it is strictly longer than the partial.
C13_CommonPrefix ==
    (FoundByCall /\ Len(completion.matches) >= 2) =>
        LET all == SeqToSet(completion.matches)
            cand == completion.common_prefix
        IN  /\ \A m \in all : IsPrefixOf(cand, m)
            /\ \A m \in all : \A k \in (Len(cand) + 1)..Len(m) :
                   \E other \in all : ~IsPrefixOf(SubSeq(m, 1, k), other)
            /\ IsPrefixOf(completion.prefix, cand)
            /\ (Len(cand) > Len(completion.prefix) => completion.ret = <<cand>>)
            /\ (Len(cand) <= Len(completion.prefix) => completion.ret = NoCompletion)

\* cd, cat and car asked for with the empty partial: the extension is c.
C13_Witness ==
    /\ FoundByCall
    /\ Len(completion.matches) = 3
    /\ completion.prefix = <<>>
    /\ completion.ret = << <<"c">> >>

\* C14: the first ambiguous request of a session shows nothing.
C14_FirstAmbiguousShowsNothing ==
    (FoundByCall /\ completion.ambiguous /\ ~completion.seen_before) =>
        completion.printed = <<>>

\* C17: inserting a name that the trie already holds leaves the whole trie
\* unchanged, and a prefix search then returns the name exactly once.
C17_InsertIdempotent ==
    (completion.op = "insert" /\ completion.prefix \in TerminalNames(completion.before)) =>
        /\ trie = completion.before
        /\ \A ord \in ChildOrders :
               Occurrences(FindPrefix(trie, <<>>, ord), completion.prefix) = 1

\* A name inserted again into a trie that holds another name below it.
C17_Witness ==
    /\ completion.op = "insert"
    /\ completion.prefix = Name_ca
    /\ Name_ca \in TerminalNames(completion.before)
    /\ Name_cat \in TerminalNames(completion.before)

----------------------------------------------------------------------------
\* Vocabulary of the properties of the engine.

\* The names a refresh started now would find: the builtins and the entries
\* of the readable directories of PATH.
CurrentNames ==
    builtin_commands \cup UNION {ReadDir(path_dirs[i]) : i \in DOMAIN path_dirs}

\* A refresh_cache call has returned and no directory has changed since it began.
Refreshed == refresher.pc = "idle" /\ refresher.clean_runs >= 1

\* Two refresh_cache calls in a row have returned and no directory has changed
\* since the first of them began.
RefreshedTwice == refresher.pc = "idle" /\ refresher.clean_runs = 2

\* The threads inside their read section, and those between the load and the
\* store of LAST_TAB_TIME.
Reading == {t \in DOMAIN completers : completers[t].pc # "idle"}

Updating == {t \in DOMAIN completers : completers[t].pc \in {"loaded", "compared"}}

\* C15: after any refresh the retrievable names are the builtin names united
\* with the names now present in the directories of PATH.
C15_RefreshRepopulates ==
    Refreshed => TerminalNames(trie) = CurrentNames

\* C16: a second refresh with unchanged directories and builtins leaves the
\* trie of the first one: the same retrievable names and, for every partial,
\* child order and clock value, the same outcome of find_common_prefix.
C16_RefreshIdempotent ==
    RefreshedTwice =>
        /\ TerminalNames(trie) = TerminalNames(refresher.before)
        /\ trie = refresher.before
        /\ \A prefix \in PrefixUniverse, ord \in ChildOrders, now \in 0..MaxElapsed :
               FindCommonPrefix(FindPrefix(trie, prefix, ord), prefix, now,
                                LAST_TAB_TIME, TAB_PRESSED, overflow_checks)
               = FindCommonPrefix(FindPrefix(refresher.before, prefix, ord), prefix, now,
                                  LAST_TAB_TIME, TAB_PRESSED, overflow_checks)

\* Two refreshes in a row over two readable directories that hold names.
C16_Witness ==
    /\ RefreshedTwice
    /\ Cardinality(TerminalNames(trie)) >= 3
    /\ \A i \in DOMAIN path_dirs : path_dirs[i].readable /\ path_dirs[i].entries # {}

\* C18: while refresh_cache holds the trie no complete call is inside its read
\* section and while a complete call is inside it no refresh_cache writes, so
\* the trie a complete call reads is the one it found when it took the lock,
\* left by a finished refresh_cache; several complete calls read at once.
C18_ReaderWriterExclusion ==
    /\ rwlock.writer <=> refresher.pc # "idle"
    /\ rwlock.readers = Cardinality(Reading)
    /\ ~(rwlock.writer /\ rwlock.readers > 0)
    /\ \A t \in Reading : completers[t].seen = trie /\ refresher.pc = "idle"

\* Both threads read a trie that a second refresh_cache has extended.
C18_Witness ==
    /\ Cardinality(Reading) = 2
    /\ refresher.before # EmptyTrie
    /\ trie # refresher.before

\* C19: the load of LAST_TAB_TIME, the comparison and the store made by one
\* ambiguous complete call are not interleaved with those of another call.
C19_TimestampUpdateAtomic == Cardinality(Updating) <= 1

----------------------------------------------------------------------------
\* C20 as stated: for every line with balanced quoting, the parsed command
\* written back as an unquoted line (words as they are, single spaces,
\* redirects as operator and path) parses to the same command, args,
\* output_redirect and error_redirect.
C20_RoundTripUnquoted ==
    (round_trip.stage = "plain" /\ round_trip.closed) => round_trip.again = round_trip.first

\* C20: for every line, with balanced quoting or not, the parsed command
\* written back with a backslash before every character of every word and path
\* parses to the same command, args, output_redirect and error_redirect.
C20_RoundTripEscaped ==
    round_trip.stage = "escaped" => round_trip.again = round_trip.first

\* A line with closed quotes whose redirect path is a space: it comes back
\* from the escaped line.
C20_Witness ==
    /\ round_trip.stage = "escaped"
    /\ round_trip.closed
    /\ \E i \in 1..Len(chars) : chars[i] \in {SQ, DQ}
    /\ round_trip.line = <<SP, GT, SP, BS, SP>>
    /\ round_trip.first.output_redirect = Redirect(<<SP>>, FALSE)
    /\ round_trip.again = round_trip.first

----------------------------------------------------------------------------
\* The steps parse can still take: three for every character not yet read,
\* ordered inside one position by what the loops do next, then one for every
\* token not yet taken and one for the return.
StepsLeft ==
    CASE pc = "tokenize" ->
           Len(chars) + 2 + 3 * (Len(chars) - position)
           + (IF Peek(chars, position) \in {SP, TAB, None} THEN 1 ELSE 3)
      [] pc = "read_word" -> Len(chars) + 2 + 3 * (Len(chars) - position) + 2
      [] pc = "parse" -> 1 + Len(tokens) - tokens_iter
      [] OTHER -> 0

\* C21: parsing always completes.  Every iteration of tokenize's loop and of
\* read_word's loop that stays in its loop strictly advances the position, a
\* word that is read takes at least one character, the position never exceeds
\* the length of the line, and parse returns: until it has, a step can be
\* taken, and every step leaves fewer steps to take.
C21_ParsingCompletes ==
    /\ [][/\ (pc = "tokenize" /\ pc' = "tokenize") => position' > position
          /\ (pc = "read_word" /\ pc' = "read_word") => position' > position
          /\ (pc = "tokenize" /\ pc' = "read_word") =>
                 (Peek(chars, position) # None /\ ~ReadBreaks(Peek(chars, position), None))
          /\ position' >= position
          /\ StepsLeft' < StepsLeft]_vars
    /\ [](/\ position <= Len(chars)
          /\ StepsLeft >= 0
          /\ (pc # "done" => ENABLED Next))

\* parse has returned on a line that ends with a backslash inside an open quote.
C21_Witness ==
    /\ pc = "done"
    /\ chars = <<"n", SP, DQ, BS>>
    /\ in_quotes = DQ
    /\ position = Len(chars)

----------------------------------------------------------------------------
\* C22: a directory of PATH that cannot be enumerated contributes no names
\* and does not abort the refresh: what a refresh adds to the trie is exactly
\* the builtin names and the names of every readable directory, before and
\* after the unreadable one.
C22_UnreadableDirSkipped ==
    /\ Refreshed => TerminalNames(trie) = TerminalNames(refresher.before) \cup CurrentNames
    /\ (refresher.pc = "dirs" /\ refresher.tainted = FALSE) =>
           LET done == {i \in DOMAIN path_dirs : i < refresher.dir}
           IN  TerminalNames(trie) =
                   TerminalNames(refresher.before) \cup builtin_commands
                   \cup UNION {IF path_dirs[i].readable THEN path_dirs[i].entries ELSE {} : i \in done}

\* The first refresh over an unreadable directory that holds car followed by
\* a readable one that holds cat: cat is indexed and car is not.
C22_Witness ==
    /\ Refreshed
    /\ ~path_dirs[1].readable
    /\ path_dirs[1].entries = {Name_car}
    /\ path_dirs[2] = Dir(TRUE, {Name_cat})
    /\ TerminalNames(trie) = builtin_commands \cup {Name_cat}

----------------------------------------------------------------------------
\* C24: after any sequence of inserts a node's stored word is non-empty only
\* if the node is terminal, and the stored word of every terminal node is the
\* string spelled by the path from the root to the node.
C24_StoredWordIsPath ==
    \A p \in DOMAIN trie :
        /\ trie[p].word # <<>> => trie[p].is_end
        /\ trie[p].is_end => trie[p].word = p

\* ca and cat inserted: a terminal node with a terminal node below it, and
\* the nodes above them not terminal.
C24_Witness ==
    /\ {Name_ca, Name_cat} \subseteq inserted
    /\ trie[Name_ca].is_end
    /\ trie[Name_cat].is_end
    /\ ~trie[<<"c">>].is_end
    /\ completion.op = "insert"

----------------------------------------------------------------------------
\* The maximal runs of characters other than space and tab, in order.
RECURSIVE RunsFrom(_, _, _)
RunsFrom(cs, i, run) ==
    IF i > Len(cs) THEN (IF run = <<>> THEN <<>> ELSE <<run>>)
    ELSE IF cs[i] \in {SP, TAB}
    THEN (IF run = <<>> THEN <<>> ELSE <<run>>) \o RunsFrom(cs, i + 1, <<>>)
    ELSE RunsFrom(cs, i + 1, Append(run, cs[i]))

MaximalRuns(cs) == RunsFrom(cs, 1, <<>>)

\* A line without quotes, backslashes and the operator characters >, | and &.
IsPlainLine(cs) == \A i \in 1..Len(cs) : cs[i] \notin {SQ, DQ, BS, GT, PIPE, AMP}

\* C25: on a line without quotes, backslashes and operator characters the
\* tokens are Words, exactly the maximal runs of non-whitespace characters in
\* order; a run that begins with 1 or 2 is one Word equal to the whole run.
C25_WordsAreMaximalRuns ==
    (pc = "done" /\ IsPlainLine(chars)) =>
        /\ \A i \in 1..Len(tokens) : tokens[i].kind = "Word"
        /\ WordTextsFrom(tokens, 1) = MaximalRuns(chars)

----------------------------------------------------------------------------
\* The token stream without the redirect tokens that no Word follows.
RECURSIVE DropDanglingFrom(_, _)
DropDanglingFrom(toks, i) ==
    IF i > Len(toks) THEN <<>>
    ELSE (IF IsRedirect(toks[i]) /\ (i = Len(toks) \/ toks[i + 1].kind # "Word")
          THEN <<>> ELSE <<toks[i]>>)
         \o DropDanglingFrom(toks, i + 1)

\* C26: a redirect token that no Word follows is dropped alone, the token
\* after it being processed as if the redirect were absent; every
\* ErrorRedirect(append) followed by a Word w sets error_redirect = (w, append)
\* (the last one, when there are several), also directly after an
\* OutputRedirect token, and symmetrically for OutputRedirect.
C26_DanglingRedirectDroppedAlone ==
    pc = "done" =>
        /\ command_parts = Assemble(DropDanglingFrom(tokens, 1))
        /\ LastPair(tokens, "ErrorRedirect") > 0 =>
               command_parts.error_redirect =
                   Redirect(tokens[LastPair(tokens, "ErrorRedirect") + 1].text,
                            tokens[LastPair(tokens, "ErrorRedirect")].append)
        /\ LastPair(tokens, "OutputRedirect") > 0 =>
               command_parts.output_redirect =
                   Redirect(tokens[LastPair(tokens, "OutputRedirect") + 1].text,
                            tokens[LastPair(tokens, "OutputRedirect")].append)

----------------------------------------------------------------------------
\* C27: tokenize never emits a Word with empty text (an empty quoted string
\* standing alone gives no token), so while parse runs "command is empty"
\* holds exactly when no Word has been taken as the command yet.
C27_NoEmptyWord ==
    /\ \A i \in 1..Len(tokens) : tokens[i].kind = "Word" => tokens[i].text # <<>>
    /\ (pc = "done" /\ chars \in {<<SQ, SQ>>, <<DQ, DQ>>}) => tokens = <<>>
    /\ pc \in {"parse", "done"} =>
           (command_parts.command = <<>>
            <=> {i \in 1..tokens_iter : tokens[i].kind = "Word" /\ ~TakenByRedirect(tokens, i)} = {})

\* An empty quoted string before a word: the word is the only token and the command.
C27_Witness ==
    /\ pc = "done"
    /\ chars = <<DQ, DQ, SP, "n">>
    /\ tokens = <<Word(<<"n">>)>>
    /\ command_parts.command = <<"n">>

----------------------------------------------------------------------------
\* C28: the outcome of find_common_prefix depends only on the set of inserted
\* names: whatever the order of the inserts and the iteration order of the
\* children, the trie, the returned suggestion and the listing are those of
\* the names inserted in one fixed order, for every partial and every value of
\* the statics; the listing is in ascending order.
C28_OrderIndependent ==
    FoundByCall =>
        /\ trie = InsertAll(EmptyTrie, inserted)
        /\ \A ord \in ChildOrders :
               LET r == FindCommonPrefix(
                            FindPrefix(InsertAll(EmptyTrie, inserted), completion.prefix, ord),
                            completion.prefix, completion.now,
                            completion.statics_before[1], completion.statics_before[2],
                            overflow_checks)
               IN  r.ret = completion.ret /\ r.printed = completion.printed
        /\ \A k \in 1..Len(completion.printed) :
               \A i, j \in 1..Len(completion.printed[k]) :
                   i < j => NameLess(completion.printed[k][i], completion.printed[k][j])

\* cat found before car, and the listing is car, cat.
C28_Witness ==
    /\ FoundByCall
    /\ completion.matches = <<Name_cat, Name_car>>
    /\ completion.printed = << <<Name_car, Name_cat>> >>

\* C29: whenever now - last_tab is evaluated, the stored last-tab time is at
\* most now.
C29_NoUnderflow ==
    (completion.op = "find_common_prefix" /\ completion.ambiguous) =>
        completion.statics_before[1] <= completion.now

\* C30: an ambiguous request on one index changes neither LAST_TAB_TIME nor
\* TAB_PRESSED as the other index sees them.
C30_IndexesIndependent ==
    (completion.op = "find_common_prefix" /\ completion.index = "other") =>
        /\ LAST_TAB_TIME = completion.statics_before[1]
        /\ TAB_PRESSED = completion.statics_before[2]

----------------------------------------------------------------------------
\* The cd just executed needs HOME: no argument, ~ or ~/...
NeedsHome(args) == args = <<>> \/ args[1] = <<TILDE>> \/ StartsWithTildeSlash(args[1])

\* C23: a failed lookup of HOME, needed for cd, cd ~ and cd ~/..., is
\* returned as the error EnvVarNotFound("HOME"); a target that does not exist
\* is returned as the normal result "cd: <path>: No such file or directory";
\* an argument that needs no tilde expansion gives no error when HOME is
\* unset; in both failure cases the working directory and current_dir stay.
C23_CdFailures ==
    shell.last.called =>
        LET last == shell.last
            stays == shell.cwd = last.cwd_before /\ shell.current_dir = last.current_dir_before
        IN  /\ (NeedsHome(last.args) /\ shell.home.state # "set") =>
                   (last.result = Err("EnvVarNotFound(HOME)") /\ stays)
            /\ ~NeedsHome(last.args) => last.result.kind = "Ok"
            /\ (~NeedsHome(last.args) /\ Resolve(last.cwd_before, last.args[1]) \notin shell.dirs) =>
                   (last.result = Ok(NoSuchDirectory(last.args[1])) /\ stays)
            /\ (last.args = << <<TILDE, SLASH, "d">> >> /\ shell.home = HomeSet(Path_h)
                /\ Path_hd \notin shell.dirs) =>
                   (last.result = Ok(NoSuchDirectory(Path_hd)) /\ stays)
            /\ last.result.kind = "Err" => last.result.output = <<>>

\* cd ~/d with HOME unset, after a cd that moved the shell to /d.
C23_Witness ==
    /\ shell.last.called
    /\ shell.last.args = << <<TILDE, SLASH, "d">> >>
    /\ shell.home = HomeUnset
    /\ shell.last.result = Err("EnvVarNotFound(HOME)")
    /\ shell.cwd = Path_d
    /\ shell.current_dir = Path_d

----------------------------------------------------------------------------
\* The chars before the cursor that are whitespace and not escaped: the
\* backslashes immediately before such a char are even in number.
RECURSIVE BackslashesBefore(_, _)
BackslashesBefore(line, k) ==
    IF k > 1 /\ line[k - 1] = BS THEN 1 + BackslashesBefore(line, k - 1) ELSE 0

IsEscaped(line, k) == BackslashesBefore(line, k) % 2 = 1

UnescapedWhitespaceBefore(line, n) ==
    {k \in 1..n : IsWhitespace(line[k]) /\ ~IsEscaped(line, k)}

\* The in-progress word of a line and a cursor: where it starts (byte offset)
\* and its text.
InProgressWord(line, pos) ==
    LET n == CharsBefore(line, pos)
        breaks == UnescapedWhitespaceBefore(line, n)
        k == IF breaks = {} THEN 0 ELSE CHOOSE j \in breaks : \A l \in breaks : l <= j
    IN  [word_start |-> ByteOffset(line, k), word |-> SubSeq(line, k + 1, n)]

\* C31: the word complete hands to the index is the text from just after the
\* last unescaped whitespace before the cursor up to the cursor (all the text
\* before the cursor when there is none), and the offset it returns is the
\* start of that text; an escaped space does not start a new word.
C31_WordAfterLastUnescapedWhitespace ==
    helper.op = "complete" =>
        /\ helper.sliced
        /\ helper.word = InProgressWord(helper.line, helper.pos).word
        /\ helper.word_start = InProgressWord(helper.line, helper.pos).word_start

----------------------------------------------------------------------------
\* tokenize has returned with the last word still inside a quote.
EndsInsideQuote == pc \in {"parse", "done"} /\ in_quotes # None

\* The line ends with a backslash that has no character after it to take:
\* the backslashes at its end are odd in number.
EndsWithLoneBackslash(cs) == BackslashesBefore(cs, Len(cs) + 1) % 2 = 1

\* The line with the open quote closed at its end.
ClosedAtEnd(cs, q) == cs \o <<q>>

\* The tokens with the last character of the last Word replaced by c.
WithLastChar(toks, c) ==
    LET last == toks[Len(toks)]
        text == last.text
    IN  [toks EXCEPT ![Len(toks)] = Word([text EXCEPT ![Len(text)] = c])]

\* C32 as stated: when the input ends inside an open quote, the tokens are
\* those of the same line with the closing quote added at its end.
C32_UnterminatedAsIfClosed ==
    EndsInsideQuote => tokens = Tokenize(ClosedAtEnd(chars, in_quotes)).tokens

\* C32: end of input inside an open quote is not an error.  tokenize returns,
\* and the tokens are those of the same line with the closing quote added at
\* its end, unless the line ends with a backslash that has nothing after it:
\* that backslash is kept as an ordinary character of the final Word (added
\* quote or not, it would take the quote as its next character).
C32_UnterminatedAsIfClosedUnlessBackslash ==
    EndsInsideQuote =>
        IF ~EndsWithLoneBackslash(chars)
        THEN /\ tokens = Tokenize(ClosedAtEnd(chars, in_quotes)).tokens
             /\ Tokenize(ClosedAtEnd(chars, in_quotes)).closed
        ELSE LET literal == SubSeq(chars, 1, Len(chars) - 1) \o <<"n">>
             IN  tokens = WithLastChar(Tokenize(ClosedAtEnd(literal, in_quotes)).tokens, BS)

\* "\"n with the quote left open: the escape of the double quote is applied
\* and the Word is "n.
C32_Witness ==
    /\ pc = "done"
    /\ chars = <<DQ, BS, DQ, "n">>
    /\ in_quotes = DQ
    /\ tokens = <<Word(<<DQ, "n">>)>>

====
